---- MODULE Spec2Model ----
\* web_to_ftp.py: the per-source fetch -> stage -> upload -> cleanup pipeline
\* (ETLPipeline.process_single_source), its FTP session context manager, the
\* directory-ensure routine, the sequential and pooled execution engines and
\* the summary reporter, as a state machine.
EXTENDS Integers, Sequences, FiniteSets, TLC

\* ------------------------------------------------------------------ bounds
NumSources == 2        \* sources in the config mapping
MaxWorkers == 2        \* largest max_workers explored
MaxSize == 2           \* largest staged artifact size explored
Depth == 2             \* path segments of the target directory
MaxRetries == 4        \* largest max_retries explored for read_csv_with_retry

\* ------------------------------------------------------- program constants
DefaultMaxRetries == 3 \* max_retries: int = 3
None == -1             \* Optional[...] = None, for the integer-valued fields

AllNames == <<"A", "B", "C", "D", "E">>
Names == {AllNames[i] : i \in 1..NumSources}
Sizes == 1..MaxSize

VARIABLES
  main,         \* main(): its position, the two selectors of sys.argv, the exit status
  mode,         \* which entry point is running: "fetch", "ensure", "source",
                \* "sequential", "parallel", "summary"; "none" before main
                \* has chosen an engine
  config,       \* load_config(): the source names in iteration order
  max_workers,  \* run_parallel's pool size
  fate,         \* per source: what its environment (network, disk, remote) does
  src,          \* per source: the locals of its process_single_source call
  remoteDepth,  \* how many leading segments of target_dir exist on the remote
  initDepth,    \* remoteDepth when the run started
  remoteFiles,  \* names stored in the remote target directory
  runpc,        \* position of run_sequential / run_parallel
  idx,          \* the engines' loop index into config
  results,      \* the results dict of the engine (a function on the names set)
  summary       \* what print_summary reported, one record per call

vars == <<main, mode, config, max_workers, fate, src, remoteDepth, initDepth,
          remoteFiles, runpc, idx, results, summary>>

\* ------------------------------------------------------------ data classes
ProcessResult(name, ok, msg, size, time) ==
  [source_name |-> name, success |-> ok, message |-> msg,
   file_size |-> size, processing_time |-> time]

NoResult == ProcessResult("", FALSE, <<>>, None, None)

\* main() is not running: an entry point of ETLPipeline is called directly
NoMain == [pc |-> "none", execution_mode |-> "absent", processing_mode |-> "absent",
           code |-> None, runs |-> 0]

RECURSIVE SumSeq(_)
SumSeq(q) == IF q = <<>> THEN 0 ELSE Head(q) + SumSeq(Tail(q))

\* time.time() - start_time: the only time that passes is the backoff sleeps
Elapsed(p) == SumSeq(p.waits)

\* the locals of one call, before it starts
Locals(pc0, retries) ==
  [pc |-> pc0, max_retries |-> retries, attempt |-> 0, log |-> <<>>,
   waits |-> <<>>, df |-> "unset", exists |-> FALSE, file_size |-> None,
   ftp |-> "None", connects |-> 0, opens |-> 0, closes |-> 0, pending |-> "none",
   exc |-> "none", seg |-> 0, mkds |-> 0, faults |-> 0, rets |-> <<>>,
   upload_success |-> FALSE, stors |-> 0, delFailed |-> FALSE,
   result |-> NoResult]

Set(s, r) == src' = [src EXCEPT ![s] = r]

\* --------------------------------------------------------- the environment
\* fate "any": every outcome of every external call is possible.  The other
\* fates fix a source's behaviour: "ok" never fails, and each of the rest
\* names the one step of that source that always fails ("dir": the remote
\* denies every directory command; "xfer": the connection is lost at the
\* transfer, so the logout fails too; "crash": an error outside the try block).
Fates == {"any", "ok", "fetch", "stage", "login", "dir", "xfer", "crash"}

Outcomes(f, step, good, bad) ==
  IF f = "any" THEN good \cup bad ELSE IF f = step THEN bad ELSE good

\* pd.read_csv(url, **params)
FetchOutcomes(f) == Outcomes(f, "fetch", {"ok"}, {"fail"})

\* ---------------------------------------------------- read_csv_with_retry
\* (a linear backoff in place of the exponential one)
BackoffLinear(attempt) == 2 * attempt

\* time.sleep(2 ** attempt)
Backoff(attempt) == 2 ^ attempt

\* (the last attempt recognised one iteration too late)
IsLastAttemptLate(attempt, max_retries) == attempt = max_retries

\* if attempt == max_retries - 1
IsLastAttempt(attempt, max_retries) == attempt = max_retries - 1

\* One iteration of `for attempt in range(max_retries)`, or the fall off the
\* end of an empty range (the function then returns None).
FetchAttempt(s) ==
  /\ src[s].pc = "fetch"
  /\ LET p == src[s] IN
       IF p.attempt >= p.max_retries
       THEN Set(s, [p EXCEPT !.pc = "stage", !.df = "None"])
       ELSE \E o \in FetchOutcomes(fate[s]) :
              IF o = "ok"
              THEN Set(s, [p EXCEPT !.pc = "stage", !.df = "df",
                                    !.log = Append(@, "ok")])
              ELSE IF IsLastAttempt(p.attempt, p.max_retries)
              THEN Set(s, [p EXCEPT !.pc = "except", !.exc = "FetchError",
                                    !.log = Append(@, "fail")])
              ELSE Set(s, [p EXCEPT !.log = Append(@, "fail"),
                                    !.waits = Append(@, Backoff(p.attempt)),
                                    !.attempt = @ + 1])
  /\ UNCHANGED <<main, mode, config, max_workers, fate, remoteDepth, initDepth,
                 remoteFiles, runpc, idx, results, summary>>

\* ----------------------------------------------------- get_ftp_connection
\* FTP_TLS(host)
ConnectOutcomes(f) == Outcomes(f, "connect", {"ok"}, {"fail"})

\* ftp.login(user, password); ftp.prot_p()
LoginOutcomes(f) == Outcomes(f, "login", {"ok"}, {"fail"})

\* ftp.quit(): a source whose data connection is lost ("xfer") cannot log out
QuitOutcomes(f) ==
  IF f = "any" THEN {"ok", "fail"} ELSE IF f = "xfer" THEN {"fail"} ELSE {"ok"}

\* ftp.close()
CloseOutcomes(f) == Outcomes(f, "close", {"ok"}, {"fail"})

\* (teardown only of a session that was fully opened)
HasSessionReady(ftp) == ftp = "ready"

\* `if ftp:` in the finally block
HasSession(ftp) == ftp # "None"

\* `Error: {str(e)}`
ErrorMessage(e) == <<"Error: ", e>>

\* (the failed upload reported with the success flag set)
UploadFailedAsSuccess(s, p) ==
  ProcessResult(s, TRUE, <<"Failed to upload to FTP">>, p.file_size, Elapsed(p))

\* the return statement inside the with block, taken when upload_to_ftp
\* returned False
UploadFailedResult(s, p) ==
  ProcessResult(s, FALSE, <<"Failed to upload to FTP">>, p.file_size, Elapsed(p))

\* What runs once the finally block has completed without raising: the
\* exception that entered it is re-raised into process_single_source's except
\* clause, the return statement that entered it completes, or control falls
\* out of the with block to the cleanup of the success path.
Resume(p) ==
  CASE p.pending = "raise"  -> [p EXCEPT !.pc = "except"]
    [] p.pending = "return" -> [p EXCEPT !.pc = "done"]
    [] OTHER                -> [p EXCEPT !.pc = "cleanup"]

\* Entering the finally block of get_ftp_connection with `how` pending
EnterFinally(p, how) ==
  IF HasSession(p.ftp)
  THEN [p EXCEPT !.pending = how, !.pc = "quit"]
  ELSE Resume([p EXCEPT !.pending = how])

Private == <<main, mode, config, max_workers, fate, remoteDepth, initDepth,
             remoteFiles, runpc, idx, results, summary>>

Connect(s) ==
  /\ src[s].pc = "connect"
  /\ LET p == [src[s] EXCEPT !.connects = @ + 1] IN
       \E o \in ConnectOutcomes(fate[s]) :
         IF o = "ok"
         THEN Set(s, [p EXCEPT !.pc = "login", !.ftp = "open", !.opens = @ + 1])
         ELSE Set(s, EnterFinally([p EXCEPT !.exc = "ConnectError"], "raise"))
  /\ UNCHANGED Private

Login(s) ==
  /\ src[s].pc = "login"
  /\ LET p == src[s] IN
       \E o \in LoginOutcomes(fate[s]) :
         IF o = "ok"
         THEN Set(s, [p EXCEPT !.pc = "cwd_target", !.ftp = "ready"])
         ELSE Set(s, EnterFinally([p EXCEPT !.exc = "LoginError"], "raise"))
  /\ UNCHANGED Private

Quit(s) ==
  /\ src[s].pc = "quit"
  /\ LET p == src[s] IN
       \E o \in QuitOutcomes(fate[s]) :
         IF o = "ok"
         THEN Set(s, Resume([p EXCEPT !.ftp = "closed", !.closes = @ + 1]))
         ELSE Set(s, [p EXCEPT !.pc = "close"])
  /\ UNCHANGED Private

\* the bare `except:` of the finally block: ftp.close() releases the
\* connection object whether or not it raises; when it raises, its exception
\* leaves the finally block in place of whatever was pending
Close(s) ==
  /\ src[s].pc = "close"
  /\ LET p == [src[s] EXCEPT !.ftp = "closed", !.closes = @ + 1] IN
       \E o \in CloseOutcomes(fate[s]) :
         IF o = "ok"
         THEN Set(s, Resume(p))
         ELSE Set(s, [p EXCEPT !.pc = "except", !.exc = "CloseError"])
  /\ UNCHANGED Private

\* --------------------------------------------------- ensure_ftp_directory
\* ftp.cwd(path): succeeds only on a directory that exists; error_perm
\* ("perm") is what the server answers for a missing directory and for a
\* denied one; "other" is any exception that is not error_perm
CwdOutcomes(f, there) ==
  IF f = "any" THEN (IF there THEN {"ok"} ELSE {}) \cup {"perm", "other"}
  ELSE IF f = "dir" THEN {"perm"}
  ELSE IF there THEN {"ok"} ELSE {"perm"}

\* ftp.mkd(path): succeeds only on a directory that does not exist yet
MkdOutcomes(f, there) ==
  IF f = "any" THEN (IF there THEN {} ELSE {"ok"}) \cup {"perm", "other"}
  ELSE IF f = "dir" THEN {"perm"}
  ELSE IF there THEN {"perm"} ELSE {"ok"}

\* an outcome a healthy remote would not give
IsFault(o, there) == o = "other" \/ (o = "perm" /\ there)

Count(p, o, there) == IF IsFault(o, there) THEN [p EXCEPT !.faults = @ + 1] ELSE p

\* `return True` / `return False` of ensure_ftp_directory
EnsureReturn(p, b) ==
  [p EXCEPT !.pc = "ensure_ret",
            !.rets = Append(@, [ret |-> b, mkds |-> p.mkds, faults |-> p.faults])]

\* (the loop over the segments ends one segment early)
NextSegmentEarly(p) ==
  IF p.seg >= Depth - 1 THEN EnsureReturn(p, TRUE) ELSE [p EXCEPT !.pc = "seg_cwd", !.seg = @ + 1]

\* the end of one iteration of `for dir_name in dirs`
NextSegment(p) ==
  IF p.seg = Depth THEN EnsureReturn(p, TRUE) ELSE [p EXCEPT !.pc = "seg_cwd", !.seg = @ + 1]

\* an exception that is not error_perm leaves ensure_ftp_directory and is
\* caught by upload_to_ftp, which returns False
UploadRaised(p) == [p EXCEPT !.pc = "upload_ret", !.upload_success = FALSE]

\* ftp.cwd(target_dir)
CwdTarget(s) ==
  /\ src[s].pc = "cwd_target"
  /\ LET there == remoteDepth >= Depth IN
       \E o \in CwdOutcomes(fate[s], there) :
         LET p == Count(src[s], o, there) IN
           CASE o = "ok"   -> Set(s, EnsureReturn(p, TRUE))
             [] o = "perm" -> Set(s, [p EXCEPT !.pc = "seg_cwd", !.seg = 1])
             [] OTHER      -> Set(s, UploadRaised(p))
  /\ UNCHANGED Private

\* ftp.cwd(current_path) at the head of the loop body
SegCwd(s) ==
  /\ src[s].pc = "seg_cwd"
  /\ LET there == remoteDepth >= src[s].seg IN
       \E o \in CwdOutcomes(fate[s], there) :
         LET p == Count(src[s], o, there) IN
           CASE o = "ok"   -> Set(s, NextSegment(p))
             [] o = "perm" -> Set(s, [p EXCEPT !.pc = "seg_mkd"])
             [] OTHER      -> Set(s, EnsureReturn(p, FALSE))
  /\ UNCHANGED Private

\* ftp.mkd(current_path): any failure, "already exists" included, is caught
\* by `except Exception` and makes ensure_ftp_directory return False
SegMkd(s) ==
  /\ src[s].pc = "seg_mkd"
  /\ LET there == remoteDepth >= src[s].seg IN
       \E o \in MkdOutcomes(fate[s], there) :
         LET p == [src[s] EXCEPT !.mkds = @ + 1,
                                 !.faults = IF o = "ok" \/ (o = "perm" /\ there)
                                            THEN @ ELSE @ + 1] IN
           IF o = "ok"
           THEN /\ Set(s, [p EXCEPT !.pc = "seg_cwd2"])
                /\ remoteDepth' = p.seg
           ELSE /\ Set(s, EnsureReturn(p, FALSE))
                /\ UNCHANGED remoteDepth
  /\ UNCHANGED <<main, mode, config, max_workers, fate, initDepth, remoteFiles,
                 runpc, idx, results, summary>>

\* ftp.cwd(current_path) after the mkd
SegCwd2(s) ==
  /\ src[s].pc = "seg_cwd2"
  /\ LET there == remoteDepth >= src[s].seg IN
       \E o \in CwdOutcomes(fate[s], there) :
         LET p == Count(src[s], o, there) IN
           IF o = "ok" THEN Set(s, NextSegment(p)) ELSE Set(s, EnsureReturn(p, FALSE))
  /\ UNCHANGED Private

\* ------------------------------------------------------------ upload_to_ftp
\* ftp.storbinary(f"STOR {file_path.name}", fp)
XferOutcomes(f) == Outcomes(f, "xfer", {"ok"}, {"fail"})

\* (the transfer issued whatever ensure_ftp_directory returned)
StoreUnchecked(s) ==
  /\ src[s].pc = "ensure_ret"
  /\ \E o \in XferOutcomes(fate[s]) :
       /\ Set(s, [src[s] EXCEPT !.pc = "upload_ret", !.stors = @ + 1,
                                !.upload_success = (o = "ok")])
       /\ remoteFiles' = IF o = "ok" THEN remoteFiles \cup {s} ELSE remoteFiles
  /\ UNCHANGED <<main, mode, config, max_workers, fate, remoteDepth, initDepth,
                 runpc, idx, results, summary>>

\* `if not self.ensure_ftp_directory(...): return False`, then the transfer
Store(s) ==
  /\ src[s].pc = "ensure_ret"
  /\ LET p == src[s] IN
       IF ~ p.rets[Len(p.rets)].ret
       THEN /\ Set(s, [p EXCEPT !.pc = "upload_ret", !.upload_success = FALSE])
            /\ UNCHANGED remoteFiles
       ELSE \E o \in XferOutcomes(fate[s]) :
              /\ Set(s, [p EXCEPT !.pc = "upload_ret", !.stors = @ + 1,
                                  !.upload_success = (o = "ok")])
              /\ remoteFiles' = IF o = "ok" THEN remoteFiles \cup {s} ELSE remoteFiles
  /\ UNCHANGED <<main, mode, config, max_workers, fate, remoteDepth, initDepth,
                 runpc, idx, results, summary>>

\* --------------------------------------------------------- safe_delete_file
\* os.remove(file_path)
DeleteOutcomes(f) == Outcomes(f, "delete", {"ok"}, {"fail"})

SafeDelete(p, o) ==
  IF ~ p.exists THEN p
  ELSE IF o = "ok" THEN [p EXCEPT !.exists = FALSE]
  ELSE [p EXCEPT !.delFailed = TRUE]

\* ---------------------------------------------------- process_single_source
\* start_time = time.time(); file_path = Path(...): the statements before the
\* try block, where an error is not caught
CrashOutcomes(f) == Outcomes(f, "crash", {"ok"}, {"raise"})

Start(s) ==
  /\ src[s].pc = "start"
  /\ LET p == src[s] IN
       \E o \in CrashOutcomes(fate[s]) :
         IF o = "ok"
         THEN Set(s, [p EXCEPT !.pc = "fetch"])
         ELSE Set(s, [p EXCEPT !.pc = "raised", !.exc = "Unexpected"])
  /\ UNCHANGED Private

\* df.to_csv(file_path, index=False); file_path.stat().st_size: "partial" is
\* a write that fails after the file was created
StageOutcomes(f) == Outcomes(f, "stage", {"ok"}, {"fail", "partial"})

\* the bytes the dataset serialises to
StagedSizes(f) == IF f = "any" THEN Sizes ELSE {MaxSize}

Stage(s) ==
  /\ src[s].pc = "stage"
  /\ LET p == src[s] IN
       IF p.df = "None"
       THEN Set(s, [p EXCEPT !.pc = "except", !.exc = "AttributeError"])
       ELSE \E o \in StageOutcomes(fate[s]), n \in StagedSizes(fate[s]) :
              CASE o = "ok" ->
                     Set(s, [p EXCEPT !.pc = "connect", !.exists = TRUE, !.file_size = n])
                [] o = "partial" ->
                     Set(s, [p EXCEPT !.pc = "except", !.exists = TRUE,
                                      !.exc = "StagingError"])
                [] OTHER ->
                     Set(s, [p EXCEPT !.pc = "except", !.exc = "StagingError"])
  /\ UNCHANGED Private

\* upload_success = self.upload_to_ftp(ftp, file_path) has returned: either
\* the early return of the failed result, or the normal exit of the with block
AfterUpload(s) ==
  /\ src[s].pc = "upload_ret"
  /\ LET p == src[s] IN
       IF p.upload_success
       THEN Set(s, EnterFinally(p, "normal"))
       ELSE Set(s, EnterFinally([p EXCEPT !.result = UploadFailedResult(s, p)], "return"))
  /\ UNCHANGED Private

\* (the outcome of the delete used as the success flag)
SuccessIfDeleted(s, p) ==
  ProcessResult(s, ~ p.delFailed, <<"Successfully processed">>, p.file_size, Elapsed(p))

\* the success path after the with block
SuccessResult(s, p) ==
  ProcessResult(s, TRUE, <<"Successfully processed">>, p.file_size, Elapsed(p))

Cleanup(s) ==
  /\ src[s].pc = "cleanup"
  /\ \E o \in DeleteOutcomes(fate[s]) :
       LET p == SafeDelete(src[s], o) IN
         Set(s, [p EXCEPT !.pc = "done", !.result = SuccessResult(s, p)])
  /\ UNCHANGED Private

\* (the failed result built without the elapsed time)
ExceptResultNoTime(s, p) == ProcessResult(s, FALSE, ErrorMessage(p.exc), None, None)

\* the `except Exception as e:` clause
ExceptResult(s, p) == ProcessResult(s, FALSE, ErrorMessage(p.exc), None, Elapsed(p))

Except(s) ==
  /\ src[s].pc = "except"
  /\ \E o \in DeleteOutcomes(fate[s]) :
       LET p == SafeDelete(src[s], o) IN
         Set(s, [p EXCEPT !.pc = "done", !.result = ExceptResult(s, p)])
  /\ UNCHANGED Private

Process(s) ==
  \/ Start(s) \/ FetchAttempt(s) \/ Stage(s) \/ Connect(s) \/ Login(s)
  \/ CwdTarget(s) \/ SegCwd(s) \/ SegMkd(s) \/ SegCwd2(s) \/ Store(s)
  \/ AfterUpload(s) \/ Quit(s) \/ Close(s) \/ Cleanup(s) \/ Except(s)

\* one call of process_single_source, in every environment
InitSource ==
  /\ main = NoMain
  /\ mode = "source"
  /\ config = <<AllNames[1]>>
  /\ max_workers = 1
  /\ fate = [s \in Names |-> "any"]
  /\ src = [s \in Names |-> IF s = AllNames[1] THEN Locals("start", DefaultMaxRetries)
                            ELSE Locals("idle", DefaultMaxRetries)]
  /\ remoteDepth \in 0..Depth
  /\ initDepth = remoteDepth
  /\ remoteFiles = {}
  /\ runpc = "none"
  /\ idx = 0
  /\ results = [s \in {} |-> NoResult]
  /\ summary = <<>>

NextSource == \E s \in Names : Process(s)

SpecSource == InitSource /\ [][NextSource]_vars

\* two calls of ensure_ftp_directory in a row on one session, from every
\* state of the remote tree
EnsureAgain(s) ==
  /\ mode = "ensure"
  /\ src[s].pc = "ensure_ret"
  /\ Len(src[s].rets) < 2
  /\ Set(s, [src[s] EXCEPT !.pc = "cwd_target", !.seg = 0])
  /\ UNCHANGED Private

InitEnsure ==
  /\ main = NoMain
  /\ mode = "ensure"
  /\ config = <<AllNames[1]>>
  /\ max_workers = 1
  /\ fate = [s \in Names |-> "any"]
  /\ src = [s \in Names |->
              IF s = AllNames[1]
              THEN [Locals("cwd_target", DefaultMaxRetries) EXCEPT !.ftp = "ready", !.opens = 1]
              ELSE Locals("idle", DefaultMaxRetries)]
  /\ remoteDepth \in 0..Depth
  /\ initDepth = remoteDepth
  /\ remoteFiles = {}
  /\ runpc = "none"
  /\ idx = 0
  /\ results = [s \in {} |-> NoResult]
  /\ summary = <<>>

NextEnsure ==
  \E s \in Names : CwdTarget(s) \/ SegCwd(s) \/ SegMkd(s) \/ SegCwd2(s) \/ EnsureAgain(s)

SpecEnsure == InitEnsure /\ [][NextEnsure]_vars

\* ----------------------------------------------------------- the engines
Sources == {config[i] : i \in 1..Len(config)}

Put(r, s, v) == [x \in DOMAIN r \cup {s} |-> IF x = s THEN v ELSE r[x]]

Local == <<main, mode, config, max_workers, fate, remoteDepth, initDepth, remoteFiles, summary>>

\* run_sequential: result = self.process_single_source(source_name, source_config)
SeqCall(s) ==
  /\ mode = "sequential" /\ runpc = "loop"
  /\ idx <= Len(config) /\ s = config[idx]
  /\ src[s].pc = "idle"
  /\ Set(s, [src[s] EXCEPT !.pc = "start"])
  /\ UNCHANGED <<runpc, idx, results>>
  /\ UNCHANGED Local

\* (the loop left at the first failed source)
SeqStoreBreak(s) ==
  /\ mode = "sequential" /\ runpc = "loop"
  /\ idx <= Len(config) /\ s = config[idx]
  /\ src[s].pc \in {"done", "raised"}
  /\ IF src[s].pc = "done"
     THEN /\ results' = Put(results, s, src[s].result)
          /\ idx' = idx + 1
          /\ runpc' = IF src[s].result.success THEN runpc ELSE "returned"
     ELSE /\ runpc' = "raised"
          /\ UNCHANGED <<results, idx>>
  /\ UNCHANGED src
  /\ UNCHANGED Local

\* results[source_name] = result, and on to the next item; an exception that
\* leaves process_single_source leaves run_sequential too
SeqStore(s) ==
  /\ mode = "sequential" /\ runpc = "loop"
  /\ idx <= Len(config) /\ s = config[idx]
  /\ src[s].pc \in {"done", "raised"}
  /\ IF src[s].pc = "done"
     THEN /\ results' = Put(results, s, src[s].result)
          /\ idx' = idx + 1
          /\ runpc' = runpc
     ELSE /\ runpc' = "raised"
          /\ UNCHANGED <<results, idx>>
  /\ UNCHANGED src
  /\ UNCHANGED Local

\* return results
SeqReturn ==
  /\ mode = "sequential" /\ runpc = "loop"
  /\ idx > Len(config)
  /\ runpc' = "returned"
  /\ UNCHANGED <<src, idx, results>>
  /\ UNCHANGED Local

\* run_parallel: executor.submit(self.process_single_source, ...) for each
\* item of config; the loop over as_completed starts once all are submitted
Submit(s) ==
  /\ mode = "parallel" /\ runpc = "submit"
  /\ idx <= Len(config) /\ s = config[idx]
  /\ Set(s, [src[s] EXCEPT !.pc = "queued"])
  /\ idx' = idx + 1
  /\ runpc' = IF idx = Len(config) THEN "collect" ELSE "submit"
  /\ UNCHANGED results
  /\ UNCHANGED Local

\* a call of process_single_source that has begun and not yet ended
Active(p) == p.pc \notin {"idle", "queued", "done", "raised"}

Busy == Cardinality({s \in Names : Active(src[s])})

\* (a pool that keeps one worker fewer than max_workers)
WorkerStartOffByOne(s) ==
  /\ mode = "parallel"
  /\ src[s].pc = "queued"
  /\ Busy < max_workers - 1
  /\ \A i \in 1..Len(config) :
       src[config[i]].pc = "queued" => \E j \in 1..i : config[j] = s
  /\ Set(s, [src[s] EXCEPT !.pc = "start"])
  /\ UNCHANGED <<runpc, idx, results>>
  /\ UNCHANGED Local

\* the pool takes the oldest queued work item when a worker is free
WorkerStart(s) ==
  /\ mode = "parallel"
  /\ src[s].pc = "queued"
  /\ Busy < max_workers
  /\ \A i \in 1..Len(config) :
       src[config[i]].pc = "queued" => \E j \in 1..i : config[j] = s
  /\ Set(s, [src[s] EXCEPT !.pc = "start"])
  /\ UNCHANGED <<runpc, idx, results>>
  /\ UNCHANGED Local

\* `Unexpected error: {str(e)}`
UnexpectedResult(s, e) ==
  ProcessResult(s, FALSE, <<"Unexpected error: ", e>>, None, None)

\* (no except clause around future.result())
CollectedNoCatch(s, p) == p.result

\* what the collection loop stores for a finished future
Collected(s, p) == IF p.pc = "raised" THEN UnexpectedResult(s, p.exc) ELSE p.result

\* one iteration of `for future in as_completed(future_to_source)`
Collect(s) ==
  /\ mode = "parallel" /\ runpc = "collect"
  /\ s \in Sources /\ s \notin DOMAIN results
  /\ src[s].pc \in {"done", "raised"}
  /\ results' = Put(results, s, Collected(s, src[s]))
  /\ UNCHANGED <<src, runpc, idx>>
  /\ UNCHANGED Local

\* the as_completed loop has yielded every future; the with block's shutdown
\* waits for the workers; return results
ParReturn ==
  /\ mode = "parallel" /\ runpc = "collect"
  /\ \A s \in Sources : s \in DOMAIN results
  /\ \A s \in Sources : ~ Active(src[s])
  /\ runpc' = "returned"
  /\ UNCHANGED <<src, idx, results>>
  /\ UNCHANGED Local

\* ------------------------------------------------------------ print_summary
MaxCalls == 2          \* calls of print_summary on one mapping

\* sum(1 for r in results.values() if r.success)
Successful(r) == Cardinality({s \in DOMAIN r : r[s].success})

\* `x or 0`
OrZero(x) == IF x = None THEN 0 ELSE x

RECURSIVE SumOver(_, _, _)
SumOver(r, keys, field) ==
  IF keys = {} THEN 0
  ELSE LET k == CHOOSE x \in keys : TRUE
       IN OrZero(r[k][field]) + SumOver(r, keys \ {k}, field)

\* (the size summed over the failed entries too)
TotalSizeAll(r) == SumOver(r, DOMAIN r, "file_size")

\* sum(r.file_size or 0 for r in results.values() if r.success)
TotalSize(r) == SumOver(r, {s \in DOMAIN r : r[s].success}, "file_size")

\* sum(r.processing_time or 0 for r in results.values())
TotalTime(r) == SumOver(r, DOMAIN r, "processing_time")

Report(r) ==
  [total |-> Cardinality(DOMAIN r), successful |-> Successful(r),
   failed |-> Cardinality(DOMAIN r) - Successful(r),
   total_size |-> TotalSize(r), total_time |-> TotalTime(r)]

\* main's run_pipeline calls print_summary once on the mapping the engine
\* returned
CallsAllowed == IF mode = "summary" THEN MaxCalls ELSE 1

PrintSummary ==
  /\ runpc = "returned"
  /\ Len(summary) < CallsAllowed
  /\ summary' = Append(summary, Report(results))
  /\ UNCHANGED <<main, mode, config, max_workers, fate, src, remoteDepth, initDepth,
                 remoteFiles, runpc, idx, results>>

\* a run of the engine over the whole config, each source with a fixed fate
\* (every fate when the target directory is there at the start; when the
\* workers have to create it, sources that are healthy or denied by the remote)
RunFates(depth) == IF depth = Depth THEN Fates \ {"any"} ELSE {"ok", "dir"}

InitRun ==
  /\ main = NoMain
  /\ mode \in {"sequential", "parallel"}
  /\ config = [i \in 1..NumSources |-> AllNames[i]]
  /\ max_workers \in (IF mode = "parallel" THEN 1..MaxWorkers ELSE {1})
  /\ remoteDepth \in {0, Depth}
  /\ fate \in [Names -> RunFates(remoteDepth)]
  /\ src = [s \in Names |-> Locals("idle", DefaultMaxRetries)]
  /\ initDepth = remoteDepth
  /\ remoteFiles = {}
  /\ runpc = (IF mode = "parallel" THEN "submit" ELSE "loop")
  /\ idx = 1
  /\ results = [s \in {} |-> NoResult]
  /\ summary = <<>>

Next ==
  \/ \E s \in Names : Process(s)
  \/ \E s \in Names : SeqCall(s) \/ SeqStore(s) \/ Submit(s) \/ WorkerStart(s) \/ Collect(s)
  \/ SeqReturn
  \/ ParReturn
  \/ PrintSummary

Init == InitRun

Spec == Init /\ [][Next]_vars

\* every network, file and FTP call returns or fails in finite time and the
\* threads of the pool keep being scheduled: a step that can be taken is taken
SpecFair == Init /\ [][Next]_vars /\ WF_vars(Next)

\* ---------------------------------------------------------------------- main
DefaultMaxWorkers == 4 \* pipeline.run_parallel(max_workers=4)

\* what sys.argv can hold: "absent" is a missing argument, "bogus" any value
\* that is none of the documented ones
ExecutionModes == {"absent", "manual", "schedule", "bogus"}
ProcessingModes == {"absent", "sequential", "parallel", "bogus"}

\* processing_mode = sys.argv[2] if len(sys.argv) > 2 else "sequential"
ProcessingMode(arg) == IF arg = "absent" THEN "sequential" ELSE arg

\* if processing_mode == "parallel": run_parallel ... else: run_sequential
Engine(processing_mode) == IF processing_mode = "parallel" THEN "parallel" ELSE "sequential"

\* run_pipeline() begins: a fresh run of the chosen engine over the config
BeginRun(m) ==
  /\ mode' = Engine(ProcessingMode(m.processing_mode))
  /\ max_workers' = (IF mode' = "parallel" THEN DefaultMaxWorkers ELSE 1)
  /\ runpc' = (IF mode' = "parallel" THEN "submit" ELSE "loop")
  /\ idx' = 1
  /\ src' = [s \in Names |-> Locals("idle", DefaultMaxRetries)]
  /\ results' = [s \in {} |-> NoResult]
  /\ summary' = <<>>
  /\ main' = [m EXCEPT !.pc = "run", !.runs = 1]

\* main() up to the dispatch on execution_mode
MainStart ==
  /\ main.pc = "start"
  /\ CASE main.execution_mode = "absent" ->
            /\ main' = [main EXCEPT !.pc = "exit", !.code = 1]
            /\ UNCHANGED <<mode, max_workers, runpc, idx, src, results, summary>>
       [] main.execution_mode = "manual" -> BeginRun(main)
       [] main.execution_mode = "schedule" ->
            /\ main' = [main EXCEPT !.pc = "waiting"]
            /\ UNCHANGED <<mode, max_workers, runpc, idx, src, results, summary>>
       [] OTHER ->
            /\ main' = [main EXCEPT !.pc = "exit", !.code = 1]
            /\ UNCHANGED <<mode, max_workers, runpc, idx, src, results, summary>>
  /\ UNCHANGED <<config, fate, remoteDepth, initDepth, remoteFiles>>

\* schedule.run_pending() finds the daily job due and calls run_pipeline
RunPending ==
  /\ main.pc = "waiting"
  /\ BeginRun(main)
  /\ UNCHANGED <<config, fate, remoteDepth, initDepth, remoteFiles>>

\* KeyboardInterrupt while the scheduler loop sleeps
Interrupt ==
  /\ main.pc = "waiting"
  /\ main' = [main EXCEPT !.pc = "exit", !.code = 0]
  /\ UNCHANGED <<mode, config, max_workers, fate, src, remoteDepth, initDepth,
                 remoteFiles, runpc, idx, results, summary>>

\* run_pipeline() ends: after print_summary, or with the exception that left
\* the engine (logged and re-raised, it ends the process)
MainFinish ==
  /\ main.pc = "run"
  /\ \/ /\ runpc = "returned" /\ Len(summary) = 1
        /\ main' = IF main.execution_mode = "manual"
                   THEN [main EXCEPT !.pc = "exit", !.code = 0]
                   ELSE [main EXCEPT !.pc = "waiting"]
     \/ /\ runpc = "raised"
        /\ main' = [main EXCEPT !.pc = "exit", !.code = 1]
  /\ UNCHANGED <<mode, config, max_workers, fate, src, remoteDepth, initDepth,
                 remoteFiles, runpc, idx, results, summary>>

\* the process started with every combination of the two selectors
MainFates == {"ok", "fetch", "xfer", "crash"}

InitMain ==
  /\ \E e \in ExecutionModes, q \in ProcessingModes :
       /\ e = "absent" => q = "absent"
       /\ main = [pc |-> "start", execution_mode |-> e, processing_mode |-> q,
                  code |-> None, runs |-> 0]
  /\ mode = "none"
  /\ config = [i \in 1..NumSources |-> AllNames[i]]
  /\ max_workers = 1
  /\ remoteDepth \in {0, Depth}
  /\ fate \in [Names -> IF remoteDepth = Depth THEN MainFates ELSE {"ok"}]
  /\ src = [s \in Names |-> Locals("idle", DefaultMaxRetries)]
  /\ initDepth = remoteDepth
  /\ remoteFiles = {}
  /\ runpc = "none"
  /\ idx = 0
  /\ results = [s \in {} |-> NoResult]
  /\ summary = <<>>

NextMain == MainStart \/ RunPending \/ Interrupt \/ MainFinish \/ Next

SpecMain == InitMain /\ [][NextMain]_vars

\* print_summary on every outcome mapping
SummaryNames == {AllNames[i] : i \in 1..(NumSources + 1)}

SummaryResults ==
  {ProcessResult("", ok, <<>>, size, time) :
     ok \in BOOLEAN, size \in {None, 100, 200}, time \in {None, 1, 2}}

InitSummary ==
  /\ main = NoMain
  /\ mode = "summary"
  /\ config = <<>>
  /\ max_workers = 1
  /\ fate = [s \in Names |-> "any"]
  /\ src = [s \in Names |-> Locals("idle", DefaultMaxRetries)]
  /\ remoteDepth = Depth
  /\ initDepth = Depth
  /\ remoteFiles = {}
  /\ runpc = "returned"
  /\ idx = 0
  /\ \E keys \in SUBSET SummaryNames : results \in [keys -> SummaryResults]
  /\ summary = <<>>

SpecSummary == InitSummary /\ [][PrintSummary]_vars

\* read_csv_with_retry called on its own, by every source at once, with every
\* max_retries up to the bound
InitFetch ==
  /\ main = NoMain
  /\ mode = "fetch"
  /\ config = <<>>
  /\ max_workers = 1
  /\ fate = [s \in Names |-> "any"]
  /\ src \in [Names -> {Locals("fetch", n) : n \in 0..MaxRetries}]
  /\ remoteDepth = Depth
  /\ initDepth = Depth
  /\ remoteFiles = {}
  /\ runpc = "none"
  /\ idx = 0
  /\ results = [s \in {} |-> NoResult]
  /\ summary = <<>>

NextFetch == \E s \in Names : FetchAttempt(s)

SpecFetch == InitFetch /\ [][NextFetch]_vars

\* ================================================================ claims
Done(p) == p.pc = "done"

AllFailed(log) == log # <<>> /\ \A i \in 1..Len(log) : log[i] = "fail"

\* C1: when process_single_source returns its ProcessResult, the local file
\* <sourceName>.csv does not exist, whichever step failed, provided the delete
\* itself did not fail.
C1_NoLocalFileAtReturn ==
  \A s \in Names : (Done(src[s]) /\ ~ src[s].delFailed) => ~ src[s].exists

\* C2: staging succeeded and the upload step failed (opening or authenticating
\* the session, ensuring the directory, or the transfer): the result is a
\* failure whose file_size is the staged size.
C2_UploadFailureKeepsSize ==
  \A s \in Names :
    (Done(src[s]) /\ src[s].file_size # None /\ ~ src[s].upload_success)
      => /\ ~ src[s].result.success
         /\ src[s].result.file_size = src[s].file_size

\* C3: the mapping an engine returns has exactly the input's keys, each with
\* the result of its own source; in run_parallel a task that raised is stored
\* as a failed "Unexpected error" result and the run does not raise.
C3_CompleteMapping ==
  /\ runpc = "returned" =>
       /\ DOMAIN results = Sources
       /\ \A s \in Sources : results[s].source_name = s
  /\ mode = "parallel" =>
       /\ runpc # "raised"
       /\ \A s \in DOMAIN results :
            src[s].pc = "raised" =>
              /\ ~ results[s].success
              /\ results[s].message = <<"Unexpected error: ", "Unexpected">>

C3_Witness ==
  /\ mode = "parallel" /\ runpc = "returned"
  /\ \E s, u \in Sources : src[s].pc = "raised" /\ results[u].success

\* C4: with the target directory present at the start and every source
\* either always succeeding or always failing at one of its own steps, the
\* mapping returned by either engine, for every pool size and interleaving,
\* marks a source as succeeded exactly when its own steps succeed; so k
\* failing sources give k failed and n-k succeeded entries.
C4_ParallelMatchesSequential ==
  (runpc = "returned" /\ initDepth = Depth) =>
    /\ DOMAIN results = Sources
    /\ \A s \in Sources : results[s].success = (fate[s] = "ok")
    /\ Cardinality({s \in Sources : ~ results[s].success})
         = Cardinality({s \in Sources : fate[s] # "ok"})

C4_Witness ==
  /\ mode = "parallel" /\ max_workers = MaxWorkers /\ runpc = "returned"
  /\ initDepth = Depth
  /\ Cardinality({s \in Sources : ~ results[s].success}) = 1
  /\ \E s \in Sources : fate[s] = "xfer"

\* the backoff delays 2^0, 2^1, ... written out
Powers == <<1, 2, 4, 8, 16, 32, 64, 128>>

\* C5: read_csv_with_retry with max_retries = N >= 1 stops at the first
\* attempt that returns data; after the k-th failed attempt (from 0), k < N-1,
\* it sleeps exactly 2^k; after the N-th failed attempt it sleeps nothing and
\* raises.  Failing twice and then succeeding with N = 3 gives 3 attempts,
\* the sleeps 1 and 2, and the dataset.
C5_RetryBackoff ==
  \A s \in Names :
    LET p == src[s]
        n == p.max_retries
        a == Len(p.log)
    IN n >= 1 =>
         /\ \A i \in 1..(a - 1) : p.log[i] = "fail"
         /\ \A k \in 1..Len(p.waits) : p.waits[k] = Powers[k]
         /\ a <= n
         /\ (a > 0 /\ p.log[a] = "ok") =>
              (p.pc = "stage" /\ p.df = "df" /\ Len(p.waits) = a - 1)
         /\ p.pc = "fetch" => (Len(p.waits) = a /\ a < n /\ p.attempt = a)
         /\ p.pc = "except" =>
              (a = n /\ Len(p.waits) = n - 1 /\ p.exc = "FetchError" /\ AllFailed(p.log))
         /\ (n = 3 /\ p.log = <<"fail", "fail", "ok">>) => p.waits = <<1, 2>>

C5_Witness ==
  \E s \in Names :
    /\ src[s].max_retries = 3
    /\ src[s].log = <<"fail", "fail", "ok">>
    /\ src[s].pc = "stage"

\* C6: every fetch attempt fails: process_single_source returns a failed
\* result after exactly 3 attempts, the message carries the fetch error, and
\* no FTP connection is attempted, no session opened, no transfer issued.
C6_FetchExhaustion ==
  \A s \in Names :
    (Done(src[s]) /\ AllFailed(src[s].log)) =>
      /\ Len(src[s].log) = 3
      /\ ~ src[s].result.success
      /\ src[s].result.message = <<"Error: ", "FetchError">>
      /\ src[s].connects = 0 /\ src[s].opens = 0 /\ src[s].stors = 0

C6_Witness ==
  \E s \in Names : Done(src[s]) /\ src[s].log = <<"fail", "fail", "fail">>

\* C7: a session that get_ftp_connection opened (the FTP_TLS object exists)
\* is torn down exactly once, and before process_single_source returns, on
\* every exit path: upload done, upload failed, login or prot_p failed.
C7_SessionClosedOnce ==
  \A s \in Names :
    LET p == src[s] IN
      /\ p.opens <= 1
      /\ p.closes <= p.opens
      /\ (p.ftp \in {"open", "ready"}) <=> (p.opens = 1 /\ p.closes = 0)
      /\ Done(p) => p.closes = p.opens

C7_Witness ==
  \E s \in Names :
    /\ Done(src[s]) /\ src[s].exc = "LoginError"
    /\ src[s].opens = 1 /\ src[s].closes = 1

\* C8: tearing the session down never changes what process_single_source
\* reports: the successful upload, the failed upload or the error that was
\* pending when the teardown began is the result, whether quit and the hard
\* close succeed or fail.
C8_TeardownKeepsOutcome ==
  \A s \in Names :
    LET p == src[s] IN
      (Done(p) /\ p.opens = 1) =>
        CASE p.pending = "normal" ->
               p.result.success /\ p.result.message = <<"Successfully processed">>
          [] p.pending = "return" ->
               ~ p.result.success /\ p.result.message = <<"Failed to upload to FTP">>
          [] OTHER ->
               ~ p.result.success /\ p.result.message = <<"Error: ", "LoginError">>

\* C9: on a remote that answers truthfully during the calls, the first
\* ensure_ftp_directory returns True and leaves the target directory in
\* place; a second call right after a successful first one returns True too
\* and issues no mkd.
C9_EnsureIdempotent ==
  \A s \in Names :
    LET r == src[s].rets IN
      /\ (Len(r) >= 1 /\ r[1].faults = 0) => (r[1].ret /\ remoteDepth >= Depth)
      /\ (Len(r) = 2 /\ r[1].ret /\ r[2].faults = r[1].faults /\ remoteDepth >= Depth)
           => (r[2].ret /\ r[2].mkds = r[1].mkds)

C9_Witness ==
  \E s \in Names :
    LET r == src[s].rets IN
      /\ Len(r) = 2 /\ r[2].faults = 0
      /\ r[1].ret /\ r[1].mkds = Depth
      /\ r[2].ret /\ r[2].mkds = Depth

\* the number of entries of the mapping that satisfy a test
CountIf(Test(_)) == Cardinality({s \in DOMAIN results : Test(results[s])})

\* every report made so far states the totals of the mapping, counted value
\* by value, and equals the first report
SummaryAgrees ==
  \A i \in 1..Len(summary) :
    LET r == summary[i] IN
      /\ r.total = Cardinality(DOMAIN results)
      /\ r.successful = CountIf(LAMBDA x : x.success)
      /\ r.failed = CountIf(LAMBDA x : ~ x.success)
      /\ r.total_size = 100 * CountIf(LAMBDA x : x.success /\ x.file_size = 100)
                      + 200 * CountIf(LAMBDA x : x.success /\ x.file_size = 200)
      /\ r.total_time = CountIf(LAMBDA x : x.processing_time = 1)
                      + 2 * CountIf(LAMBDA x : x.processing_time = 2)
      /\ r = summary[1]

\* C10: print_summary reports total = entries, successful = entries with
\* success, failed = the rest, bytes = file_size summed over the successful
\* entries only, time = processing_time summed over all entries, None counted
\* as 0; it leaves the mapping as it was, and a second call reports the same.
C10_SummaryTotals == [] SummaryAgrees /\ [][results' = results]_vars

C10_Example ==
  [x \in {"A", "B", "C"} |->
     CASE x = "A" -> ProcessResult("", TRUE, <<>>, 100, 1)
       [] x = "B" -> ProcessResult("", FALSE, <<>>, 200, None)
       [] OTHER   -> ProcessResult("", TRUE, <<>>, 200, 2)]

C10_Witness ==
  /\ results = C10_Example
  /\ Len(summary) = 2
  /\ summary[2] = [total |-> 3, successful |-> 2, failed |-> 1,
                   total_size |-> 300, total_time |-> 3]

\* sys.argv holds a value that is none of the documented ones
InvalidSelector ==
  \/ main.execution_mode = "bogus"
  \/ main.processing_mode = "bogus" /\ main.execution_mode # "absent"

\* C11: an invalid execution mode or an invalid processing mode makes the
\* process exit with a non-zero status, and no source is processed: no
\* fetch, no staged file, no FTP session.
C11_InvalidSelectorExits ==
  (main.pc # "none" /\ InvalidSelector) =>
    /\ \A s \in Names : src[s].pc = "idle"
    /\ main.pc \in {"start", "exit"}
    /\ main.pc = "exit" => main.code \notin {0, None}

\* C12: workers of run_parallel that create the absent target directory at
\* the same time all get success from ensure_ftp_directory, the one whose mkd
\* is rejected as "already exists" included; with an otherwise healthy remote
\* every source's upload succeeds under every interleaving.
C12_ConcurrentEnsureSucceeds ==
  (mode = "parallel" /\ initDepth = 0 /\ \A s \in Names : fate[s] = "ok") =>
    /\ \A s \in Names :
         \A k \in 1..Len(src[s].rets) : src[s].rets[k].ret
    /\ runpc = "returned" => \A s \in Sources : results[s].success

\* C13: a failed deletion of the local artifact leaves the ProcessResult as it
\* would have been: success with 'Successfully processed' on the success path,
\* failure with the message of the error that preceded the cleanup otherwise.
C13_DeleteFailureKeepsResult ==
  \A s \in Names :
    LET p == src[s] IN
      (Done(p) /\ p.delFailed) =>
        IF p.upload_success /\ p.exc = "none"
        THEN /\ p.result.success
             /\ p.result.message = <<"Successfully processed">>
             /\ p.result.file_size = p.file_size
        ELSE /\ ~ p.result.success
             /\ p.exc \in {"StagingError", "ConnectError", "LoginError", "CloseError"}
             /\ p.result.message = <<"Error: ", p.exc>>

C13_Witness ==
  \E s \in Names :
    /\ Done(src[s]) /\ src[s].delFailed /\ src[s].exists
    /\ src[s].result.success

\* C14: process_single_source returns success exactly when the fetch returned
\* data, the artifact was staged, the session was opened and authenticated,
\* the directory was ensured and the transfer completed; a success result
\* carries file_size and processing_time.
C14_SuccessIffAllSteps ==
  \A s \in Names :
    LET p == src[s] IN
      Done(p) =>
        /\ p.result.success <=>
             /\ p.df = "df" /\ p.file_size # None /\ p.opens = 1
             /\ p.rets # <<>> /\ p.rets[Len(p.rets)].ret
             /\ p.upload_success /\ s \in remoteFiles
        /\ p.result.success =>
             (p.result.file_size # None /\ p.result.processing_time # None)

\* C15: in run_parallel with max_workers = W never more than W sources are
\* being processed, so at most W sessions are open and at most W staged
\* artifacts exist at once; every source is submitted before the first
\* result is collected.
C15_PoolBound ==
  mode = "parallel" =>
    /\ Busy <= max_workers
    /\ Cardinality({s \in Names : src[s].ftp \in {"open", "ready"}}) <= max_workers
    /\ Cardinality({s \in Names : src[s].exists}) <= max_workers
    /\ DOMAIN results # {} => \A s \in Sources : src[s].pc # "idle"

\* C16: run_sequential processes one source at a time, in the order of the
\* mapping, starts a source only once the result of the one before it is
\* stored, and goes on to every remaining source after a failed one.
C16_SequentialOrder ==
  mode = "sequential" =>
    /\ Busy <= 1
    /\ \A i, j \in 1..Len(config) :
         (i < j /\ src[config[j]].pc # "idle") =>
           (Done(src[config[i]]) /\ config[i] \in DOMAIN results)
    /\ runpc = "returned" =>
         \A s \in Sources : Done(src[s]) /\ s \in DOMAIN results

C16_Witness ==
  /\ mode = "sequential" /\ runpc = "returned"
  /\ ~ results[config[1]].success
  /\ results[config[Len(config)]].success

\* C17: a staging write that fails (to_csv or the size read) gives a failed
\* ProcessResult with processing_time set, and no FTP connection is attempted
\* or opened for that source.
C17_StagingFailure ==
  \A s \in Names :
    LET p == src[s] IN
      (Done(p) /\ p.exc = "StagingError") =>
        /\ ~ p.result.success
        /\ p.result.processing_time # None
        /\ p.result.processing_time = SumSeq(p.waits)
        /\ p.connects = 0 /\ p.opens = 0 /\ p.ftp = "None"

C17_Witness ==
  \E s \in Names :
    /\ Done(src[s]) /\ src[s].exc = "StagingError"
    /\ src[s].result.processing_time > 0

\* upload_to_ftp has returned to process_single_source
UploadReturned(p) == p.pc = "upload_ret" \/ p.pending \in {"normal", "return"}

\* ensure_ftp_directory returned True in this session
Ensured(p) == p.rets # <<>> /\ p.rets[Len(p.rets)].ret

\* C18: STOR is issued only after ensure_ftp_directory returned True in the
\* same session; when it returns False or raises, upload_to_ftp returns False
\* and no STOR is issued.
C18_StoreAfterEnsure ==
  \A s \in Names :
    LET p == src[s] IN
      /\ p.stors > 0 => (Ensured(p) /\ p.opens = 1)
      /\ (UploadReturned(p) /\ ~ Ensured(p)) =>
           (~ p.upload_success /\ p.stors = 0 /\ s \notin remoteFiles)

C18_Witness ==
  \E s \in Names :
    /\ src[s].pc = "upload_ret" /\ src[s].rets # <<>> /\ ~ Ensured(src[s])
    /\ src[s].stors = 0

\* the engine has returned its mapping or raised
Terminated == runpc \in {"returned", "raised"}

\* nothing of a submitted source is still under way
Quiescent ==
  \A s \in Sources :
    /\ src[s].pc \in {"done", "raised"}
    /\ src[s].ftp \notin {"open", "ready"}

\* C19: when every external call ends in finite time, every run of
\* run_sequential and of run_parallel terminates, and run_parallel returns
\* only when every submitted source has finished: no task running, no session
\* open.
C19_Terminates ==
  /\ <> Terminated
  /\ [] ((mode = "parallel" /\ runpc = "returned") => Quiescent)

C19_Witness ==
  /\ mode = "parallel" /\ runpc = "returned" /\ max_workers = 1
  /\ \E s \in Sources : src[s].log = <<"fail", "fail", "fail">>

\* C20: for every max_retries, 0 and 1 included, read_csv_with_retry returns
\* the dataset of its first successful attempt or raises the error of its
\* last attempt; it never returns without a dataset.
C20_DatasetOrError ==
  \A s \in Names :
    LET p == src[s] IN
      /\ p.pc = "stage" =>
           (p.df = "df" /\ p.log # <<>> /\ p.log[Len(p.log)] = "ok")
      /\ p.pc = "except" =>
           (p.exc = "FetchError" /\ p.log # <<>> /\ p.log[Len(p.log)] = "fail")

====
